---- MODULE Spec2Model ----
(***************************************************************************)
(* Model of server.py, the logging HTTP server: LoggingHandler (one        *)
(* handler thread per accepted connection), LogServer.log_request and the  *)
(* replay builders.  Text is a sequence of code points, a body a sequence  *)
(* of byte values, a header list a sequence of <<name, value>> pairs.      *)
(***************************************************************************)
EXTENDS Integers, Sequences, FiniteSets, TLC

\* ---- bounds -------------------------------------------------------------

\* connections the listener accepts in one run
NConn == 2
\* body bytes a client may deliver on one connection
MaxBody == 2
\* headers of one request in SpecOne
MaxHeaders == 2
\* longest body handed to the renderer in SpecRender
MaxBodyLen == 3
\* longest body of the two requests compared in SpecPair
MaxPairBody == 2

\* ---- text ---------------------------------------------------------------

GET == <<71, 69, 84>>
POST == <<80, 79, 83, 84>>
PUT == <<80, 85, 84>>
PATCH == <<80, 65, 84, 67, 72>>
DELETE == <<68, 69, 76, 69, 84, 69>>
OPTIONS == <<79, 80, 84, 73, 79, 78, 83>>
HEAD == <<72, 69, 65, 68>>

\* "Content-Length", "Host"
CONTENT_LENGTH == <<67, 111, 110, 116, 101, 110, 116, 45, 76, 101, 110, 103, 116, 104>>
HOST == <<72, 111, 115, 116>>

\* the characters ' \ space :
SQ == 39
BSL == 92
SP == 32
COLON == 58

RECURSIVE JoinSp(_)
\* " ".join(parts)
JoinSp(parts) ==
  IF parts = <<>> THEN <<>>
  ELSE IF Len(parts) = 1 THEN Head(parts)
  ELSE Head(parts) \o <<SP>> \o JoinSp(Tail(parts))

\* str.lower() on the Latin-1 letters A-Z
LowerChar(c) == IF c \in 65..90 THEN c + 32 ELSE c
Lower(s) == [i \in 1..Len(s) |-> LowerChar(s[i])]

\* ---- helpers (server.py 25-54) -----------------------------------------

RECURSIVE ReplaceQuote(_)
\* value.replace("'", "'\\''")
ReplaceQuote(value) ==
  IF value = <<>> THEN <<>>
  ELSE (IF Head(value) = SQ THEN <<SQ, BSL, SQ, SQ>> ELSE <<Head(value)>>)
       \o ReplaceQuote(Tail(value))

shell_quote(value) == <<SQ>> \o ReplaceQuote(value) \o <<SQ>>

\* bytes.decode("utf-8"), strict: the length of the well-formed sequence
\* that starts at b[i], 0 when none does
IsCont(b, i) == i <= Len(b) /\ b[i] \in 128..191
SecondOk(b, i) ==
  /\ i + 1 <= Len(b)
  /\ LET l == b[i]
         s == b[i + 1]
     IN  CASE l = 224 -> s \in 160..191
           [] l = 237 -> s \in 128..159
           [] l = 240 -> s \in 144..191
           [] l = 244 -> s \in 128..143
           [] OTHER -> s \in 128..191
Utf8Need(l) ==
  CASE l \in 0..127 -> 1
    [] l \in 194..223 -> 2
    [] l \in 224..239 -> 3
    [] l \in 240..244 -> 4
    [] OTHER -> 0
Utf8SeqLen(b, i) ==
  LET n == Utf8Need(b[i])
  IN  CASE n = 1 -> 1
        [] n = 2 -> IF IsCont(b, i + 1) THEN 2 ELSE 0
        [] n = 3 -> IF SecondOk(b, i) /\ IsCont(b, i + 2) THEN 3 ELSE 0
        [] n = 4 -> IF SecondOk(b, i) /\ IsCont(b, i + 2) /\ IsCont(b, i + 3)
                    THEN 4 ELSE 0
        [] OTHER -> 0
Utf8CodePoint(b, i, n) ==
  CASE n = 1 -> b[i]
    [] n = 2 -> (b[i] - 192) * 64 + (b[i + 1] - 128)
    [] n = 3 -> (b[i] - 224) * 4096 + (b[i + 1] - 128) * 64 + (b[i + 2] - 128)
    [] OTHER -> (b[i] - 240) * 262144 + (b[i + 1] - 128) * 4096
                + (b[i + 2] - 128) * 64 + (b[i + 3] - 128)

RECURSIVE Utf8ValidFrom(_, _)
Utf8ValidFrom(b, i) ==
  IF i > Len(b) THEN TRUE
  ELSE LET n == Utf8SeqLen(b, i)
       IN  n > 0 /\ Utf8ValidFrom(b, i + n)

\* body.decode("utf-8") does not raise UnicodeDecodeError
Utf8Valid(b) == Utf8ValidFrom(b, 1)

\* the ill-formed bytes one U+FFFD stands for under errors="replace": the
\* lead byte and the continuation bytes that were still acceptable
BadLen(b, i) ==
  LET n == Utf8Need(b[i])
  IN  IF n < 3 THEN 1
      ELSE IF ~SecondOk(b, i) THEN 1
      ELSE IF n = 3 THEN 2
      ELSE IF IsCont(b, i + 2) THEN 3 ELSE 2

RECURSIVE Utf8DecodeFrom(_, _)
Utf8DecodeFrom(b, i) ==
  IF i > Len(b) THEN <<>>
  ELSE LET n == Utf8SeqLen(b, i)
       IN  IF n > 0
           THEN <<Utf8CodePoint(b, i, n)>> \o Utf8DecodeFrom(b, i + n)
           ELSE <<65533>> \o Utf8DecodeFrom(b, i + BadLen(b, i))

\* body.decode("utf-8", errors="replace"); equals body.decode("utf-8")
\* when that does not raise
Utf8Decode(b) == Utf8DecodeFrom(b, 1)

\* body.decode("latin1"): byte value = code point
Latin1Decode(b) == b

RECURSIVE CurlHeaderParts(_)
\* for key, val in headers.items(): parts.extend(["-H", quote(f"{key}: {val}")])
CurlHeaderParts(headers) ==
  IF headers = <<>> THEN <<>>
  ELSE <<<<45, 72>>,
         shell_quote(Head(headers)[1] \o <<COLON, SP>> \o Head(headers)[2])>>
       \o CurlHeaderParts(Tail(headers))

\* the body flag and quoted text of the curl form
CurlBodyParts(body) ==
  IF body = <<>> THEN <<>>
  ELSE IF Utf8Valid(body)
  THEN <<<<45, 45, 100, 97, 116, 97, 45, 114, 97, 119>>,
         shell_quote(Utf8Decode(body))>>
  ELSE <<<<45, 45, 100, 97, 116, 97, 45, 98, 105, 110, 97, 114, 121>>,
         shell_quote(Latin1Decode(body))>>

build_curl(method, url, headers, body) ==
  JoinSp(<<<<99, 117, 114, 108>>, <<45, 105>>, <<45, 88>>, method>>
         \o CurlHeaderParts(headers)
         \o CurlBodyParts(body)
         \o <<shell_quote(url)>>)

RECURSIVE HttpieHeaderParts(_)
\* for key, val in headers.items(): parts.append(quote(f"{key}:{val}"))
HttpieHeaderParts(headers) ==
  IF headers = <<>> THEN <<>>
  ELSE <<shell_quote(Head(headers)[1] \o <<COLON>> \o Head(headers)[2])>>
       \o HttpieHeaderParts(Tail(headers))

\* the body flag and quoted text of the httpie form: "--raw" in both branches
HttpieBodyParts(body) ==
  IF body = <<>> THEN <<>>
  ELSE IF Utf8Valid(body)
  THEN <<<<45, 45, 114, 97, 119>>, shell_quote(Utf8Decode(body))>>
  ELSE <<<<45, 45, 114, 97, 119>>, shell_quote(Latin1Decode(body))>>

build_httpie(method, url, headers, body) ==
  JoinSp(<<<<104, 116, 116, 112>>, <<45, 118>>, method, shell_quote(url)>>
         \o HttpieHeaderParts(headers)
         \o HttpieBodyParts(body))

\* ---- body and header fields (server.py 86-94, 106, 135-157) -------------

\* one character of the base64 alphabet A-Z a-z 0-9 + /
B64Char(v) ==
  CASE v \in 0..25 -> 65 + v
    [] v \in 26..51 -> 97 + (v - 26)
    [] v \in 52..61 -> 48 + (v - 52)
    [] v = 62 -> 43
    [] OTHER -> 47

RECURSIVE b64encode(_)
\* base64.b64encode(body).decode("ascii"): 3 bytes to 4 characters, the
\* last group padded with "="
b64encode(b) ==
  IF b = <<>> THEN <<>>
  ELSE IF Len(b) = 1
  THEN <<B64Char(b[1] \div 4), B64Char((b[1] % 4) * 16), 61, 61>>
  ELSE IF Len(b) = 2
  THEN <<B64Char(b[1] \div 4),
         B64Char((b[1] % 4) * 16 + b[2] \div 16),
         B64Char((b[2] % 16) * 4), 61>>
  ELSE <<B64Char(b[1] \div 4),
         B64Char((b[1] % 4) * 16 + b[2] \div 16),
         B64Char((b[2] % 16) * 4 + b[3] \div 64),
         B64Char(b[3] % 64)>>
       \o b64encode(SubSeq(b, 4, Len(b)))

\* the whitespace int() strips from a Latin-1 header value
IsSpace(c) == c \in {9, 10, 11, 12, 13, 32, 133, 160}
IsDigit(c) == c \in 48..57

RECURSIVE StripLeft(_)
StripLeft(s) ==
  IF s # <<>> /\ IsSpace(Head(s)) THEN StripLeft(Tail(s)) ELSE s
RECURSIVE StripRight(_)
StripRight(s) ==
  IF s # <<>> /\ IsSpace(s[Len(s)])
  THEN StripRight(SubSeq(s, 1, Len(s) - 1)) ELSE s

RECURSIVE DigitsValue(_, _)
\* the digits of d, underscores skipped, as a number
DigitsValue(d, acc) ==
  IF d = <<>> THEN acc
  ELSE IF Head(d) = 95 THEN DigitsValue(Tail(d), acc)
  ELSE DigitsValue(Tail(d), acc * 10 + (Head(d) - 48))

\* int(length_str): optional sign, decimal digits, single underscores
\* between digits, whitespace around; anything else raises ValueError
ParseInt(s) ==
  LET t == StripRight(StripLeft(s))
      signed == t # <<>> /\ Head(t) \in {43, 45}
      d == IF signed THEN Tail(t) ELSE t
      wellFormed ==
        /\ d # <<>>
        /\ IsDigit(d[1]) /\ IsDigit(d[Len(d)])
        /\ \A i \in 1..Len(d) : IsDigit(d[i]) \/ d[i] = 95
        /\ \A i \in 1..(Len(d) - 1) : ~(d[i] = 95 /\ d[i + 1] = 95)
  IN  IF ~wellFormed THEN [ok |-> FALSE, val |-> 0]
      ELSE [ok |-> TRUE,
            val |-> IF Head(t) = 45 THEN 0 - DigitsValue(d, 0)
                    ELSE DigitsValue(d, 0)]

RECURSIVE HeadersGetFrom(_, _, _)
HeadersGetFrom(items, name, default) ==
  IF items = <<>> THEN default
  ELSE IF Lower(Head(items)[1]) = Lower(name) THEN Head(items)[2]
  ELSE HeadersGetFrom(Tail(items), name, default)

\* self.headers.get(name, default): the value of the first header whose
\* name matches, case ignored
HeadersGet(items, name, default) == HeadersGetFrom(items, name, default)

\* the value self.headers.get(name) gives for a missing header
None == <<-1>>

\* ContentLength with the header looked up by its exact spelling
ContentLengthExactName(items) ==
  LET at == {i \in 1..Len(items) : items[i][1] = CONTENT_LENGTH}
      length_str == IF at = {} THEN None
                    ELSE items[CHOOSE i \in at : \A j \in at : i <= j][2]
  IN  IF length_str = None \/ length_str = <<>> THEN 0
      ELSE LET r == ParseInt(length_str)
           IN  IF r.ok /\ r.val > 0 THEN r.val ELSE 0

\* the number of body bytes _read_body asks rfile for: 0 when the header
\* is missing, empty, not an integer, or not positive
ContentLength(items) ==
  LET length_str == HeadersGet(items, CONTENT_LENGTH, None)
  IN  IF length_str = None \/ length_str = <<>> THEN 0
      ELSE LET r == ParseInt(length_str)
           IN  IF r.ok /\ r.val > 0 THEN r.val ELSE 0

RECURSIVE DictPut(_, _, _)
\* d[k] = v on an insertion-ordered dict: an existing key keeps its place
\* and takes the new value, a new key goes last
DictPut(d, k, v) ==
  IF d = <<>> THEN <<<<k, v>>>>
  ELSE IF Head(d)[1] = k THEN <<<<k, v>>>> \o Tail(d)
  ELSE <<Head(d)>> \o DictPut(Tail(d), k, v)

RECURSIVE DictFrom(_, _)
DictFrom(items, d) ==
  IF items = <<>> THEN d
  ELSE DictFrom(Tail(items), DictPut(d, Head(items)[1], Head(items)[2]))

\* {k: v for k, v in self.headers.items()}
HeadersDict(items) == DictFrom(items, <<>>)

\* "\n".join(f"  - {k}: {v}" ...) or "  - (none)", as a list of lines
HeadersBlock(headers) ==
  IF headers = <<>> THEN <<<<32, 32, 45, 32, 40, 110, 111, 110, 101, 41>>>>
  ELSE [i \in 1..Len(headers) |->
          <<32, 32, 45, 32>> \o headers[i][1] \o <<COLON, SP>> \o headers[i][2]]

RECURSIVE Utf8Encode(_)
\* str.encode("utf-8") of text below U+0800
Utf8Encode(t) ==
  IF t = <<>> THEN <<>>
  ELSE (IF Head(t) < 128 THEN <<Head(t)>>
        ELSE <<192 + (Head(t) \div 64), 128 + (Head(t) % 64)>>)
       \o Utf8Encode(Tail(t))

\* log_request with the base64 field taken from the body's Latin-1 text
\* encoded again, not from the body bytes
log_request_text(method, path, url, headers, body, client) ==
  [client |-> client,
   method |-> method,
   path |-> path,
   url |-> url,
   headers_block |-> HeadersBlock(headers),
   length |-> Len(body),
   body_utf8 |-> IF body # <<>> THEN Utf8Decode(body) ELSE <<>>,
   body_b64 |-> IF body # <<>> THEN b64encode(Utf8Encode(Latin1Decode(body)))
                ELSE <<>>,
   curl_cmd |-> build_curl(method, url, headers, body),
   httpie_cmd |-> build_httpie(method, url, headers, body)]

\* the fields of the block log_request hands to logger.info (the timestamp
\* and the python_requests snippet left out)
log_request(method, path, url, headers, body, client) ==
  [client |-> client,
   method |-> method,
   path |-> path,
   url |-> url,
   headers_block |-> HeadersBlock(headers),
   length |-> Len(body),
   body_utf8 |-> IF body # <<>> THEN Utf8Decode(body) ELSE <<>>,
   body_b64 |-> IF body # <<>> THEN b64encode(body) ELSE <<>>,
   curl_cmd |-> build_curl(method, url, headers, body),
   httpie_cmd |-> build_httpie(method, url, headers, body)]

\* ---- state --------------------------------------------------------------

VARIABLES
  response_body,          \* LogServer.response_body
  response_content_type,  \* LogServer.response_content_type
  listening,              \* serve_forever is running
  conn,                   \* per connection: the handler thread and its socket
  fileLog,                \* what the FileHandler has written
  consoleLog,             \* what the StreamHandler has written
  fileLock,               \* the FileHandler's lock: 0 or its holder
  consoleLock,            \* the StreamHandler's lock: 0 or its holder
  render,                 \* SpecRender: one request and its block
  pair                    \* SpecPair: two requests and their replay strings

vars == <<response_body, response_content_type, listening, conn, fileLog,
          consoleLog, fileLock, consoleLock, render, pair>>

serverVars == <<response_body, response_content_type, listening, conn,
                fileLog, consoleLog, fileLock, consoleLock>>

Conns == 1..NConn

\* the methods LoggingHandler defines a do_ method for
RespondMethods == {GET, POST, PUT, PATCH, DELETE, OPTIONS}

\* the address the URL falls back to: f"{server_name}:{server_port}"
ServerAddress == <<115, 114, 118, 58, 54, 53, 54, 53>>

\* the page and type of BaseHTTPRequestHandler.send_error(501)
ErrorBody == <<53, 48, 49>>
ErrorContentType == "text/html;charset=utf-8"

\* full_url = f"http://{host_header}{self.path}"
FullUrl(items, path) ==
  <<104, 116, 116, 112, 58, 47, 47>>
  \o HeadersGet(items, HOST, ServerAddress) \o path

\* _respond from the body on: the block it has log_request write
RespondBlock(method, path, items, body, client) ==
  log_request(method, path, FullUrl(items, path), HeadersDict(items), body,
              client)

\* rfile.read that raises when the stream ends before n bytes have come
RfileReadStrict(buf, peer, n) ==
  (IF Len(buf) >= n
   THEN {[raised |-> FALSE, data |-> SubSeq(buf, 1, n)]} ELSE {})
  \cup (IF Len(buf) < n /\ peer \in {"eof", "reset"}
        THEN {[raised |-> TRUE, data |-> <<>>]} ELSE {})

\* the outcomes of self.rfile.read(n), n > 0, on a socket that has delivered
\* buf: the first n bytes once they are there; what came before the end of
\* the stream; an error once the connection is reset (bytes rfile had
\* already buffered may still be returned)
RfileRead(buf, peer, n) ==
  (IF Len(buf) >= n
   THEN {[raised |-> FALSE, data |-> SubSeq(buf, 1, n)]} ELSE {})
  \cup (IF Len(buf) < n /\ peer = "eof"
        THEN {[raised |-> FALSE, data |-> buf]} ELSE {})
  \cup (IF peer = "reset" THEN {[raised |-> TRUE, data |-> <<>>]} ELSE {})

\* a handler that writes without taking its lock
CanAcquireUnlocked(lock) == TRUE

\* Handler.acquire() succeeds: nobody holds the handler's lock
CanAcquire(lock) == lock = 0

\* serve_forever after a handler thread raised: process_request_thread
\* catches the exception, the accept loop is untouched
AfterHandlerError(l) == l

\* the status line and headers _respond sends
OkHead ==
  [part |-> "head", status |-> 200, content_type |-> response_content_type,
   content_length |-> Len(response_body)]
OkBody == [part |-> "body", bytes |-> response_body]

ErrorHead ==
  [part |-> "head", status |-> 501, content_type |-> ErrorContentType,
   content_length |-> Len(ErrorBody)]

IdleConn ==
  [pc |-> "idle", method |-> <<>>, path |-> <<>>, headers |-> <<>>,
   inbuf |-> <<>>, peer |-> "open", body |-> <<>>, msg |-> <<>>,
   failed |-> "", out |-> <<>>]

ResponseConfigs ==
  {[body |-> <<79, 75>>, type |-> "text/plain; charset=utf-8"],
   [body |-> <<123, 125, 10>>, type |-> "application/json"]}

NoRender == [done |-> FALSE]

InitServer ==
  /\ \E cfg \in ResponseConfigs :
       /\ response_body = cfg.body
       /\ response_content_type = cfg.type
  /\ listening = TRUE
  /\ conn = [c \in Conns |-> IdleConn]
  /\ fileLog = <<>>
  /\ consoleLog = <<>>
  /\ fileLock = 0
  /\ consoleLock = 0

Init ==
  /\ InitServer
  /\ render = NoRender
  /\ pair = NoRender

\* ---- the requests clients send ------------------------------------------

RECURSIVE SeqsUpTo(_, _)
\* the sequences over S of length at most n
SeqsUpTo(S, n) ==
  IF n = 0 THEN {<<>>}
  ELSE LET shorter == SeqsUpTo(S, n - 1)
       IN  shorter \cup {Append(q, x) : q \in shorter, x \in S}

\* the byte values a client's body is made of: one value where connections
\* run side by side, two where one connection is followed in detail
ConcBytes == {97}
ClientBytes == {97, 233}

\* Spec: two methods with a do_ method or without, no body or a declared
\* body of two bytes
ConcRequests ==
  {[method |-> m, path |-> <<47>>, headers |-> h] :
     m \in {GET, HEAD},
     h \in {<<>>, <<<<CONTENT_LENGTH, <<50>>>>>>}}

\* SpecOne: the Content-Length values "", "x", "0", "-1", "1", "2", a
\* lower-case Content-Length, and headers that repeat a name
LengthValues == {<<>>, <<120>>, <<48>>, <<45, 49>>, <<49>>, <<50>>}
HeaderPairs ==
  {<<CONTENT_LENGTH, v>> : v \in LengthValues}
  \cup {<<Lower(CONTENT_LENGTH), <<49>>>>,
        <<<<88, 45, 65>>, <<49>>>>, <<<<88, 45, 65>>, <<50>>>>,
        <<<<120, 45, 97>>, <<49>>>>}
RichRequests ==
  {[method |-> m, path |-> <<47>>, headers |-> h] :
     m \in {POST, HEAD}, h \in SeqsUpTo(HeaderPairs, MaxHeaders)}

\* SpecRender and SpecPair: bodies over ' and the bytes of e-acute in UTF-8
\* (C3 A9) and in Latin-1 (E9); a path, a header name and value with a quote
RenderBytes == {39, 195, 169, 233}
RenderHeaders ==
  {<<>>,
   <<<<<<88, 45, 65>>, <<105, 116, 39, 115>>>>>>,
   <<<<HOST, <<104>>>>, <<<<88, 45, 65>>, <<>>>>>>}
RenderRequests ==
  {[method |-> m, path |-> p, headers |-> h, body |-> b] :
     m \in {POST}, p \in {<<47>>, <<47, 97, 63, 98, 61, 39, 99, 39>>},
     h \in RenderHeaders, b \in SeqsUpTo(RenderBytes, MaxBodyLen)}
PairRequests ==
  {[method |-> m, path |-> <<47>>, headers |-> h, body |-> b] :
     m \in {PUT}, h \in {<<>>, <<<<<<88, 45, 65>>, <<105, 116, 39, 115>>>>>>},
     b \in SeqsUpTo(RenderBytes, MaxPairBody)}

\* ---- the listener and the handler threads -------------------------------

\* get_request + process_request: the accept loop hands the connection to a
\* new thread, which parses the request line and the headers
Accept(c, reqs) ==
  /\ listening
  /\ conn[c].pc = "idle"
  /\ \A d \in Conns : d < c => conn[d].pc # "idle"
  /\ \E r \in reqs :
       conn' = [conn EXCEPT ![c] =
                  [@ EXCEPT !.pc = "handle", !.method = r.method,
                            !.path = r.path, !.headers = r.headers]]
  /\ UNCHANGED <<response_body, response_content_type, listening, fileLog,
                 consoleLog, fileLock, consoleLock, render, pair>>

\* the client delivers one more body byte (bytes that arrive once the body
\* has been read are never read: one request is handled per connection)
ClientSend(c, bytes) ==
  /\ conn[c].pc = "read_body"
  /\ conn[c].peer = "open"
  /\ Len(conn[c].inbuf) < MaxBody
  /\ \E b \in bytes :
       conn' = [conn EXCEPT ![c].inbuf = Append(@, b)]
  /\ UNCHANGED <<response_body, response_content_type, listening, fileLog,
                 consoleLog, fileLock, consoleLock, render, pair>>

\* the client closes its sending side: the handler's reads reach the end of
\* the stream
ClientShutdown(c) ==
  /\ conn[c].pc = "read_body"
  /\ conn[c].peer = "open"
  /\ conn' = [conn EXCEPT ![c].peer = "eof"]
  /\ UNCHANGED <<response_body, response_content_type, listening, fileLog,
                 consoleLog, fileLock, consoleLock, render, pair>>

\* the connection is reset: the handler's reads and writes fail from now on
\* (taken where the handler's next step is a read or a write, which is where
\* a reset that came earlier is noticed)
ClientReset(c) ==
  /\ conn[c].pc \in {"read_body", "send_error", "send_head", "send_body"}
  /\ conn[c].peer \in {"open", "eof"}
  /\ conn' = [conn EXCEPT ![c].peer = "reset"]
  /\ UNCHANGED <<response_body, response_content_type, listening, fileLog,
                 consoleLog, fileLock, consoleLock, render, pair>>

\* handle_one_request: call do_<command> when the class has it, otherwise
\* answer 501
HandleOneRequest(c) ==
  /\ conn[c].pc = "handle"
  /\ conn' = [conn EXCEPT ![c].pc =
                IF conn[c].method \in RespondMethods THEN "read_body"
                ELSE "send_error"]
  /\ UNCHANGED <<response_body, response_content_type, listening, fileLog,
                 consoleLog, fileLock, consoleLock, render, pair>>

\* send_error(501): the error head, and the error page unless the method is
\* HEAD; a reset connection makes the write raise
SendError(c) ==
  /\ conn[c].pc = "send_error"
  /\ IF conn[c].peer = "reset"
     THEN /\ conn' = [conn EXCEPT ![c].pc = "aborted", ![c].failed = "write"]
          /\ listening' = AfterHandlerError(listening)
     ELSE /\ conn' = [conn EXCEPT
                        ![c].pc = "done",
                        ![c].out =
                          IF conn[c].method = HEAD THEN <<ErrorHead>>
                          ELSE <<ErrorHead,
                                 [part |-> "body", bytes |-> ErrorBody]>>]
          /\ UNCHANGED listening
  /\ UNCHANGED <<response_body, response_content_type, fileLog, consoleLog,
                 fileLock, consoleLock, render, pair>>

\* _read_body: no read when ContentLength is 0, otherwise rfile.read(length),
\* which blocks until it has an outcome
ReadBody(c) ==
  /\ conn[c].pc = "read_body"
  /\ LET n == ContentLength(conn[c].headers)
     IN  IF n = 0
         THEN /\ conn' = [conn EXCEPT ![c].pc = "log_request",
                                      ![c].body = <<>>]
              /\ UNCHANGED listening
         ELSE \E r \in RfileRead(conn[c].inbuf, conn[c].peer, n) :
                IF r.raised
                THEN /\ conn' = [conn EXCEPT ![c].pc = "aborted",
                                             ![c].failed = "read"]
                     /\ listening' = AfterHandlerError(listening)
                ELSE /\ conn' = [conn EXCEPT ![c].pc = "log_request",
                                             ![c].body = r.data]
                     /\ UNCHANGED listening
  /\ UNCHANGED <<response_body, response_content_type, fileLog, consoleLog,
                 fileLock, consoleLock, render, pair>>

\* self.server.log_request(...): the block is built, logger.info is entered
LogRequest(c) ==
  /\ conn[c].pc = "log_request"
  /\ conn' = [conn EXCEPT
               ![c].pc = "emit_file",
               ![c].msg = RespondBlock(conn[c].method, conn[c].path,
                                       conn[c].headers, conn[c].body, c)]
  /\ UNCHANGED <<response_body, response_content_type, listening, fileLog,
                 consoleLog, fileLock, consoleLock, render, pair>>

\* file_handler.handle(record): take the lock, start writing the block
EmitFileBegin(c) ==
  /\ conn[c].pc = "emit_file"
  /\ CanAcquire(fileLock)
  /\ fileLock' = c
  /\ fileLog' = Append(fileLog, [owner |-> c, part |-> "REQUEST START",
                                 block |-> conn[c].msg])
  /\ conn' = [conn EXCEPT ![c].pc = "emit_file_end"]
  /\ UNCHANGED <<response_body, response_content_type, listening, consoleLog,
                 consoleLock, render, pair>>

\* the rest of the block is written and flushed, the lock released
EmitFileEnd(c) ==
  /\ conn[c].pc = "emit_file_end"
  /\ fileLog' = Append(fileLog, [owner |-> c, part |-> "REQUEST END",
                                 block |-> conn[c].msg])
  /\ fileLock' = IF fileLock = c THEN 0 ELSE fileLock
  /\ conn' = [conn EXCEPT ![c].pc = "emit_console"]
  /\ UNCHANGED <<response_body, response_content_type, listening, consoleLog,
                 consoleLock, render, pair>>

\* stream_handler.handle(record), the second handler of the logger
EmitConsoleBegin(c) ==
  /\ conn[c].pc = "emit_console"
  /\ CanAcquire(consoleLock)
  /\ consoleLock' = c
  /\ consoleLog' = Append(consoleLog, [owner |-> c, part |-> "REQUEST START",
                                       block |-> conn[c].msg])
  /\ conn' = [conn EXCEPT ![c].pc = "emit_console_end"]
  /\ UNCHANGED <<response_body, response_content_type, listening, fileLog,
                 fileLock, render, pair>>

EmitConsoleEnd(c) ==
  /\ conn[c].pc = "emit_console_end"
  /\ consoleLog' = Append(consoleLog, [owner |-> c, part |-> "REQUEST END",
                                       block |-> conn[c].msg])
  /\ consoleLock' = IF consoleLock = c THEN 0 ELSE consoleLock
  /\ conn' = [conn EXCEPT ![c].pc = "send_head"]
  /\ UNCHANGED <<response_body, response_content_type, listening, fileLog,
                 fileLock, render, pair>>

\* send_response(200), the two send_header calls, end_headers: one write of
\* the status line and the headers
SendHead(c) ==
  /\ conn[c].pc = "send_head"
  /\ IF conn[c].peer = "reset"
     THEN /\ conn' = [conn EXCEPT ![c].pc = "aborted", ![c].failed = "write"]
          /\ listening' = AfterHandlerError(listening)
     ELSE /\ conn' = [conn EXCEPT ![c].pc = "send_body",
                                  ![c].out = <<OkHead>>]
          /\ UNCHANGED listening
  /\ UNCHANGED <<response_body, response_content_type, fileLog, consoleLog,
                 fileLock, consoleLock, render, pair>>

\* self.wfile.write(self.server.response_body)
WriteBody(c) ==
  /\ conn[c].pc = "send_body"
  /\ IF conn[c].peer = "reset"
     THEN /\ conn' = [conn EXCEPT ![c].pc = "aborted", ![c].failed = "write"]
          /\ listening' = AfterHandlerError(listening)
     ELSE /\ conn' = [conn EXCEPT ![c].pc = "done",
                                  ![c].out = Append(@, OkBody)]
          /\ UNCHANGED listening
  /\ UNCHANGED <<response_body, response_content_type, fileLog, consoleLog,
                 fileLock, consoleLock, render, pair>>

\* one step of connection c's handler thread
HandlerStep(c) ==
  \/ HandleOneRequest(c)
  \/ SendError(c)
  \/ ReadBody(c)
  \/ LogRequest(c)
  \/ EmitFileBegin(c)
  \/ EmitFileEnd(c)
  \/ EmitConsoleBegin(c)
  \/ EmitConsoleEnd(c)
  \/ SendHead(c)
  \/ WriteBody(c)

ClientStep(c, bytes) ==
  \/ ClientSend(c, bytes)
  \/ ClientShutdown(c)
  \/ ClientReset(c)

Next ==
  \E c \in Conns :
    \/ Accept(c, ConcRequests)
    \/ ClientStep(c, ConcBytes)
    \/ HandlerStep(c)

Spec == Init /\ [][Next]_vars

\* one connection followed in detail: any header list, any body bytes
NextOne ==
  \/ Accept(1, RichRequests)
  \/ ClientStep(1, ClientBytes)
  \/ HandlerStep(1)

SpecOne == Init /\ [][NextOne]_vars

\* ---- the renderer on its own -------------------------------------------

InitRender ==
  /\ InitServer
  /\ render \in {[done |-> FALSE, req |-> r] : r \in RenderRequests}
  /\ pair = NoRender

\* _respond's log_request call on a request whose body has been read
Render ==
  /\ ~render.done
  /\ render' = [done |-> TRUE, req |-> render.req,
                block |-> RespondBlock(render.req.method, render.req.path,
                                       render.req.headers, render.req.body,
                                       1)]
  /\ UNCHANGED <<serverVars, pair>>

SpecRender == InitRender /\ [][Render]_vars

InitPair ==
  /\ InitServer
  /\ render = NoRender
  /\ pair \in {[done |-> FALSE, a |-> ra, b |-> rb] :
                 ra \in PairRequests, rb \in PairRequests}

\* log_request's two replay strings for each of two requests
RenderPair ==
  /\ ~pair.done
  /\ LET ba == RespondBlock(pair.a.method, pair.a.path, pair.a.headers,
                            pair.a.body, 1)
         bb == RespondBlock(pair.b.method, pair.b.path, pair.b.headers,
                            pair.b.body, 2)
     IN  pair' = [done |-> TRUE, a |-> pair.a, b |-> pair.b,
                  curlA |-> ba.curl_cmd, curlB |-> bb.curl_cmd,
                  httpieA |-> ba.httpie_cmd, httpieB |-> bb.httpie_cmd]
  /\ UNCHANGED <<serverVars, render>>

SpecPair == InitPair /\ [][RenderPair]_vars

\* ---- properties ---------------------------------------------------------

\* the entries of a sink that start a block of connection c
Starts(log, c) ==
  {i \in 1..Len(log) : log[i].owner = c /\ log[i].part = "REQUEST START"}

\* connection c's block is in the sink, whole
HasBlock(log, c) ==
  \E i \in Starts(log, c) :
    /\ i < Len(log)
    /\ log[i + 1].owner = c
    /\ log[i + 1].part = "REQUEST END"

\* connection c has its block, once, in the file and on the console
Transcribed(c) ==
  /\ HasBlock(fileLog, c) /\ Cardinality(Starts(fileLog, c)) = 1
  /\ HasBlock(consoleLog, c) /\ Cardinality(Starts(consoleLog, c)) = 1

\* no entry of connection c is in either sink
NotLogged(c) ==
  /\ \A i \in 1..Len(fileLog) : fileLog[i].owner # c
  /\ \A i \in 1..Len(consoleLog) : consoleLog[i].owner # c

\* what has been written to connection c is the fixed response
FixedResponse(c) == conn[c].out = <<OkHead, OkBody>>

\* the handler of c has returned from _read_body with a body
BodyRead(c) ==
  \/ conn[c].pc \in {"log_request", "emit_file", "emit_file_end",
                     "emit_console", "emit_console_end", "send_head",
                     "send_body"}
  \/ conn[c].pc = "done" /\ conn[c].method \in RespondMethods
  \/ conn[c].pc = "aborted" /\ conn[c].failed = "write"
       /\ conn[c].method \in RespondMethods

\* the value of the request's first Content-Length header, None without one
DeclaredText(items) ==
  LET at == {i \in 1..Len(items) : Lower(items[i][1]) = Lower(CONTENT_LENGTH)}
  IN  IF at = {} THEN None
      ELSE items[CHOOSE i \in at : \A j \in at : i <= j][2]

\* the body length a Content-Length value declares: "1" and "2" are the
\* positive integers among the values sent; the empty value, "x", "0" and
\* "-1" declare none
DeclaredLength(items) ==
  LET v == DeclaredText(items)
  IN  CASE v = <<49>> -> 1
        [] v = <<50>> -> 2
        [] OTHER -> 0

\* C1: every response written has status 200, the content type and the
\* body length fixed at startup and the fixed body, whatever the request's
\* method, path, headers and body; any two answered connections got the
\* same response.
C1_EveryResponseIsFixed ==
  /\ \A c \in Conns :
       /\ conn[c].out # <<>> => conn[c].out[1] = OkHead
       /\ Len(conn[c].out) > 1 => conn[c].out[2] = OkBody
       /\ conn[c].pc = "done" => Len(conn[c].out) = 2
  /\ \A c, d \in Conns :
       conn[c].pc = "done" /\ conn[d].pc = "done" => conn[c].out = conn[d].out

\* C2: exactly one transcript block is appended per parsed request, before
\* the first response byte: a connection that has been sent anything has
\* its block, once, in the file and on the console.
C2_TranscriptBeforeResponse ==
  \A c \in Conns : conn[c].out # <<>> => Transcribed(c)

\* C3: every method is routed to the same handling: a finished request is
\* transcribed with its method and answered with the fixed response.
C3_EveryMethodHandledAlike ==
  \A c \in Conns :
    conn[c].pc = "done" =>
      /\ FixedResponse(c)
      /\ \E i \in Starts(fileLog, c) : fileLog[i].block.method = conn[c].method
      /\ \E i \in Starts(consoleLog, c) :
           consoleLog[i].block.method = conn[c].method

\* a sink holds every block whole: a start is followed at once by the end
\* of the same block, an end follows its start, and no block is started
\* twice
SinkIntact(log) ==
  /\ \A i \in 1..Len(log) :
       /\ log[i].part = "REQUEST START" /\ i < Len(log) =>
            /\ log[i + 1].part = "REQUEST END"
            /\ log[i + 1].owner = log[i].owner
            /\ log[i + 1].block = log[i].block
       /\ log[i].part = "REQUEST END" =>
            /\ i > 1
            /\ log[i - 1].part = "REQUEST START"
            /\ log[i - 1].owner = log[i].owner
  /\ \A c \in Conns : Cardinality(Starts(log, c)) <= 1

\* C4: when connections log at the same time, in the file and on the
\* console every block appears once and contiguous, in any order, and each
\* connection that logged has its block whole in both sinks before it is
\* answered, and is answered with the fixed response.
C4_BlocksIntact ==
  /\ SinkIntact(fileLog)
  /\ SinkIntact(consoleLog)
  /\ \A c \in Conns :
       conn[c].msg # <<>> =>
         /\ conn[c].pc \in {"send_head", "send_body", "done", "aborted"} =>
              Transcribed(c)
         /\ conn[c].pc = "done" => FixedResponse(c)
         /\ conn[c].pc = "send_body" => conn[c].out = <<OkHead>>

\* C4's case: two connections logged side by side (the file and the console
\* hold their blocks in different orders) and both were answered.
C4_Witness ==
  /\ \A c \in Conns : c <= 2 => conn[c].pc = "done" /\ FixedResponse(c)
  /\ Len(fileLog) >= 4 /\ Len(consoleLog) >= 4
  /\ fileLog[1].owner # consoleLog[1].owner

\* C5: the transcript's header list has one line per header received, in
\* arrival order, two headers with the same name giving two lines.
C5_AllHeadersRecorded ==
  conn[1].msg # <<>> /\ conn[1].headers # <<>> =>
    /\ Len(conn[1].msg.headers_block) = Len(conn[1].headers)
    /\ conn[1].msg.headers_block = HeadersBlock(conn[1].headers)

\* C6: two requests with different body bytes never have the same replay
\* string, in the curl form or in the httpie form (as they could not if the
\* string gave back the body bytes).
C6_ReplayDistinguishesBodies ==
  pair.done /\ pair.a.body # pair.b.body =>
    /\ pair.curlA # pair.curlB
    /\ pair.httpieA # pair.httpieB

\* the curl form alone: requests that differ have different strings
CurlDistinguishes ==
  pair.done /\ pair.a # pair.b => pair.curlA # pair.curlB

\* the httpie form: requests with the same replay string differ at most in
\* their bodies, which then have the same text
HttpieDistinguishesText ==
  pair.done /\ pair.httpieA = pair.httpieB =>
    /\ pair.a.headers = pair.b.headers
    /\ (IF Utf8Valid(pair.a.body) THEN Utf8Decode(pair.a.body)
        ELSE Latin1Decode(pair.a.body))
       = (IF Utf8Valid(pair.b.body) THEN Utf8Decode(pair.b.body)
          ELSE Latin1Decode(pair.b.body))

B64Value(ch) ==
  CASE ch \in 65..90 -> ch - 65
    [] ch \in 97..122 -> ch - 97 + 26
    [] ch \in 48..57 -> ch - 48 + 52
    [] ch = 43 -> 62
    [] OTHER -> 63

RECURSIVE B64Decode(_)
\* the bytes a base64 text stands for: four characters give three bytes,
\* two with one "=", one with two
B64Decode(t) ==
  IF Len(t) < 4 THEN <<>>
  ELSE LET a == B64Value(t[1])
           b == B64Value(t[2])
           c == B64Value(t[3])
           d == B64Value(t[4])
           b1 == a * 4 + b \div 16
           b2 == (b % 16) * 16 + c \div 4
           b3 == (c % 4) * 64 + d
       IN  IF t[3] = 61 THEN <<b1>>
           ELSE IF t[4] = 61 THEN <<b1, b2>>
           ELSE <<b1, b2, b3>> \o B64Decode(SubSeq(t, 5, Len(t)))

\* C8: decoding the block's base64 field gives back the body bytes, for
\* any bytes, and the logged length is the number of bytes it gives.
C8_Base64RoundTrip ==
  render.done =>
    /\ B64Decode(render.block.body_b64) = render.req.body
    /\ render.block.length = Len(B64Decode(render.block.body_b64))
    /\ Len(render.block.body_b64) % 4 = 0

\* C8's case: a rendered body of three bytes that is not UTF-8
C8_Witness ==
  /\ render.done
  /\ render.req.body = <<233, 39, 195>>
  /\ ~Utf8Valid(render.req.body)
  /\ B64Decode(render.block.body_b64) = <<233, 39, 195>>

\* the read of c's body ended before the declared bytes had come
ShortRead(c) ==
  BodyRead(c) /\ Len(conn[c].body) < DeclaredLength(conn[c].headers)

Stalled(c) ==
  /\ conn[c].pc = "read_body"
  /\ conn[c].peer = "open"
  /\ Len(conn[c].inbuf) < ContentLength(conn[c].headers)

\* C10: while one connection is stalled in its body read, another that
\* sent a complete request is transcribed and answered: once its handler
\* has finished, its block is logged and it has the fixed response.
C10_StallDoesNotBlockOthers ==
  /\ listening
  /\ \A a, b \in Conns :
       a # b /\ Stalled(a) /\ conn[b].pc = "done" =>
         Transcribed(b) /\ FixedResponse(b)

====
